---- MODULE Spec2Model ----
(***************************************************************************)
(* A model of sidebar.py, the generator of a github wiki sidebar.          *)
(*                                                                         *)
(* Text is modelled as a sequence of one-character strings, so that        *)
(* strip, lower, the regular expressions and the slices of the source act  *)
(* on characters.  Four specifications share the variables:                *)
(*   SpecAnchor  create_anchor applied to a heading text                   *)
(*   SpecParse   extract_headings run over the lines of one file           *)
(*   SpecBuild   the per-file body of generate_sidebar's first loop        *)
(*   SpecEmit    process_args' summary map and generate_sidebar's writes   *)
(***************************************************************************)
EXTENDS Naturals, Integers, Sequences, FiniteSets

VARIABLES
    pc,                     \* position in the program
    text, anchor,           \* create_anchor: argument and result
    file, lineNo,           \* extract_headings: the file's lines, lines read
    main_heading,           \* extract_headings / generate_sidebar: None or a text
    subheadings,            \* sequence of <<indent, text>>
    hidx,                   \* generate_sidebar: sub-headings consumed by the loop
    prior_indent, spaces, indent_level,
    subheads,               \* summary.subheads: the fragments of one block
    summaryDef,             \* process_args: the -s argument
    summary_map,            \* None or the loaded SummaryMap.defs
    summary_list,           \* sequence of SummaryInfo
    sidx, gidx,             \* generate_sidebar: positions of the emission loops
    ungrouped_header_done,
    sidebar                 \* what has been written to the output file

vars == <<pc, text, anchor, file, lineNo, main_heading, subheadings, hidx,
          prior_indent, spaces, indent_level, subheads, summaryDef,
          summary_map, summary_list, sidx, gidx, ungrouped_header_done,
          sidebar>>

anchorVars == <<text, anchor>>
parseVars  == <<file, lineNo>>
headVars   == <<main_heading, subheadings>>
buildVars  == <<hidx, prior_indent, spaces, indent_level, subheads>>
emitVars   == <<summaryDef, summary_map, summary_list, sidx, gidx,
                ungrouped_header_done, sidebar>>

(***************************************************************************)
(* Bounds of the model.                                                    *)
(***************************************************************************)
MaxTextLen == 4     \* longest text given to create_anchor
MaxHashes  == 3     \* most '#' characters starting a line of a file
MaxLines   == 2     \* most lines of a file
MaxDepth   == 4     \* deepest sub-heading of a block
MaxHeads   == 3     \* most sub-headings of a block
MaxDocs    == 2     \* most markdown files
MaxGroups  == 2     \* most groups of the JSON definition
MaxMembers == 2     \* most names listed under one group

(***************************************************************************)
(* Python's None, and an optional value as a sequence of at most one.      *)
(***************************************************************************)
None == <<>>
Some(v) == <<v>>

(***************************************************************************)
(* Characters.                                                             *)
(***************************************************************************)
Whitespace == {" ", "\t", "\n"}
WordChars  == {"a", "b", "x", "y", "A", "B", "_"}

SeqsUpTo(S, n) == UNION {[1..k -> S] : k \in 0..n}

RECURSIVE lstrip(_)
lstrip(s) ==
    IF s # <<>> /\ Head(s) \in Whitespace THEN lstrip(Tail(s)) ELSE s

RECURSIVE rstrip(_)
rstrip(s) ==
    IF s # <<>> /\ s[Len(s)] \in Whitespace
    THEN rstrip(SubSeq(s, 1, Len(s) - 1)) ELSE s

\* str.strip()
strip(s) == rstrip(lstrip(s))

\* str.lower(), one character
lowerChar(c) == IF c = "A" THEN "a" ELSE IF c = "B" THEN "b" ELSE c

\* str.lower()
lower(s) == [i \in 1..Len(s) |-> lowerChar(s[i])]

\* s[n:]
SliceFrom(s, n) == SubSeq(s, n + 1, Len(s))

(***************************************************************************)
(* create_anchor                                                           *)
(***************************************************************************)
\* the class [^\w\s-] of create_anchor's pattern
InvalidChar(c) == c \notin WordChars /\ c \notin Whitespace /\ c # "-"

\* re.sub(r'[^\w\s-]', '', text)
ReSubInvalid(s) == SelectSeq(s, LAMBDA c : ~InvalidChar(c))

\* a variant that turns each run of whitespace into one hyphen
ReplaceWhitespaceRuns(s) ==
    LET Keep(i) == ~(s[i] \in Whitespace /\ i > 1 /\ s[i-1] \in Whitespace)
        F[i \in 0..Len(s)] ==
            IF i = 0 THEN <<>>
            ELSE IF ~Keep(i) THEN F[i-1]
            ELSE Append(F[i-1], IF s[i] \in Whitespace THEN "-" ELSE s[i])
    IN  F[Len(s)]

\* str.replace(' ', '-')
ReplaceSpace(s) == [i \in 1..Len(s) |-> IF s[i] = " " THEN "-" ELSE s[i]]

create_anchor(t) == ReplaceSpace(lower(strip(ReSubInvalid(t))))

AnchorAlphabet == {"a", "A", " ", "\t", "-", "!"}

InitAnchor ==
    /\ pc = "anchor"
    /\ text \in SeqsUpTo(AnchorAlphabet, MaxTextLen)
    /\ anchor = None
    /\ file = <<>> /\ lineNo = 0
    /\ main_heading = None /\ subheadings = <<>>
    /\ hidx = 0 /\ prior_indent = 0 /\ spaces = 0 /\ indent_level = 0
    /\ subheads = <<>>
    /\ summaryDef = None /\ summary_map = None /\ summary_list = <<>>
    /\ sidx = 0 /\ gidx = 0 /\ ungrouped_header_done = FALSE
    /\ sidebar = <<>>

CreateAnchor ==
    /\ pc = "anchor"
    /\ anchor' = Some(create_anchor(text))
    /\ pc' = "anchored"
    /\ UNCHANGED <<text, parseVars, headVars, buildVars, emitVars>>

NextAnchor == CreateAnchor

SpecAnchor == InitAnchor /\ [][NextAnchor]_vars

(***************************************************************************)
(* extract_headings                                                        *)
(***************************************************************************)
\* len(m.group()) for m = re.search("^#+", line); 0 when there is no match
RECURSIVE HashCount(_)
HashCount(line) ==
    IF line # <<>> /\ Head(line) = "#" THEN 1 + HashCount(Tail(line)) ELSE 0

\* a variant in which an H1 line sets the heading only while it is unset
SetMainHeadingOnce(old, line, indent) ==
    IF old = None THEN Some(SliceFrom(line, indent + 1)) ELSE old

\* main_heading = line[indent+1:]
SetMainHeading(old, line, indent) == Some(SliceFrom(line, indent + 1))

\* subheadings.append((indent, line[offset:])), offset = indent + 1
AppendSubheading(subs, line, indent) ==
    Append(subs, <<indent, SliceFrom(line, indent + 1)>>)

\* if not main_heading
NotHeading(h) == h = None \/ h = Some(<<>>)

\* os.path.basename(file_path.replace('.md', '')), for the one file read
FileBaseName == <<"f">>

Hashes(n) == [i \in 1..n |-> "#"]

\* the lines a file is made of: optional leading blank, '#' markers,
\* optional blank, text
FileLines ==
    {lead \o Hashes(n) \o sep \o txt \o <<"\n">> :
        lead \in {<<>>, <<" ">>}, n \in 0..MaxHashes,
        sep \in {<<>>, <<" ">>}, txt \in {<<>>, <<"x">>, <<"x", "y">>}}

InitParse ==
    /\ pc = "read"
    /\ file \in SeqsUpTo(FileLines, MaxLines)
    /\ lineNo = 0
    /\ main_heading = None /\ subheadings = <<>>
    /\ text = <<>> /\ anchor = None
    /\ hidx = 0 /\ prior_indent = 0 /\ spaces = 0 /\ indent_level = 0
    /\ subheads = <<>>
    /\ summaryDef = None /\ summary_map = None /\ summary_list = <<>>
    /\ sidx = 0 /\ gidx = 0 /\ ungrouped_header_done = FALSE
    /\ sidebar = <<>>

\* one iteration of "for line in file"
ReadLine ==
    /\ pc = "read"
    /\ lineNo < Len(file)
    /\ lineNo' = lineNo + 1
    /\ LET line == strip(file[lineNo + 1])
           indent == HashCount(line)
       IN  /\ main_heading' =
                IF indent = 1 THEN SetMainHeading(main_heading, line, indent)
                ELSE main_heading
           /\ subheadings' =
                IF indent > 1 THEN AppendSubheading(subheadings, line, indent)
                ELSE subheadings
    /\ UNCHANGED <<pc, file, anchorVars, buildVars, emitVars>>

\* the end of the file: the default heading, and the return
ReturnHeadings ==
    /\ pc = "read"
    /\ lineNo = Len(file)
    /\ main_heading' =
         IF NotHeading(main_heading) THEN Some(FileBaseName) ELSE main_heading
    /\ pc' = "returned"
    /\ UNCHANGED <<file, lineNo, subheadings, anchorVars, buildVars, emitVars>>

NextParse == ReadLine \/ ReturnHeadings

SpecParse == InitParse /\ [][NextParse]_vars

(***************************************************************************)
(* generate_sidebar: the block of one file (summary.subheads)              *)
(***************************************************************************)
\* one element of summary.subheads: its tag, the count of two-blank units
\* before it, the anchor of its link (None: the page itself), its text
Frag(kind, sp, anch, txt) ==
    [kind |-> kind, spaces |-> sp, anchor |-> anch, text |-> txt]

\* a variant that opens one list for each level stepped into
OpenListPerLevel(indent, prior) ==
    [k \in 1..(indent - prior) |-> Frag("ul", prior + k, None, <<>>)]

\* the branch indent_level > prior_indent: one list is opened
OpenList(indent, prior) == <<Frag("ul", indent, None, <<>>)>>

\* the branch indent_level < prior_indent:
\* for count in range(prior_indent, indent_level, -1)
CloseLists(prior, indent) ==
    [k \in 1..(prior - indent) |-> Frag("/ul", prior - k + 1, None, <<>>)]

\* after the loop: for count in range(indent_level, 1, -1)
CloseRemaining(indent) ==
    [k \in 1..(indent - 1) |-> Frag("/ul", indent - k, None, <<>>)]

\* the list item of one sub-heading
ListItem(sp, sub) ==
    Frag("li", sp, Some(create_anchor(strip(sub))), strip(sub))

HeadTexts == {<<"x">>, <<" ", "A", "!">>}

InitBuild ==
    /\ pc = "summary"
    /\ main_heading = Some(<<"x">>)
    /\ subheadings \in SeqsUpTo((2..MaxDepth) \X HeadTexts, MaxHeads)
    /\ hidx = 0 /\ prior_indent = 0 /\ spaces = 0 /\ indent_level = 0
    /\ subheads = <<>>
    /\ text = <<>> /\ anchor = None
    /\ file = <<>> /\ lineNo = 0
    /\ summaryDef = None /\ summary_map = None /\ summary_list = <<>>
    /\ sidx = 0 /\ gidx = 0 /\ ungrouped_header_done = FALSE
    /\ sidebar = <<>>

\* the <details> line, then either the end of the block or the first <ul>
StartSummary ==
    /\ pc = "summary"
    /\ IF subheadings = <<>>
       THEN /\ subheads' = <<Frag("details", 0, None, main_heading[1]),
                             Frag("/details", 0, None, <<>>),
                             Frag("nl", 0, None, <<>>)>>
            /\ pc' = "built"
            /\ UNCHANGED <<prior_indent, spaces>>
       ELSE /\ subheads' = <<Frag("details", 0, None, main_heading[1]),
                             Frag("ul", 1, None, <<>>)>>
            /\ prior_indent' = 2
            /\ spaces' = 2
            /\ pc' = "loop"
    /\ UNCHANGED <<hidx, indent_level, headVars, anchorVars, parseVars,
                   emitVars>>

\* one iteration of "for indent_level, subheading_anchor in subheadings"
HeadingStep ==
    /\ pc = "loop"
    /\ hidx < Len(subheadings)
    /\ hidx' = hidx + 1
    /\ LET indent == subheadings[hidx + 1][1]
           sub    == subheadings[hidx + 1][2]
       IN  /\ indent_level' = indent
           /\ IF indent > prior_indent
              THEN /\ spaces' = indent + 1
                   /\ prior_indent' = indent
                   /\ subheads' = subheads \o OpenList(indent, prior_indent)
                                     \o <<ListItem(indent + 1, sub)>>
              ELSE IF indent < prior_indent
              THEN /\ spaces' = indent
                   /\ prior_indent' = indent
                   /\ subheads' = subheads \o CloseLists(prior_indent, indent)
                                     \o <<ListItem(indent, sub)>>
              ELSE /\ subheads' = Append(subheads, ListItem(spaces, sub))
                   /\ UNCHANGED <<prior_indent, spaces>>
    /\ UNCHANGED <<pc, headVars, anchorVars, parseVars, emitVars>>

\* after the loop: the remaining </ul> lines, </details> and the blank line
CloseSummary ==
    /\ pc = "loop"
    /\ hidx = Len(subheadings)
    /\ subheads' = subheads \o CloseRemaining(indent_level)
                     \o <<Frag("/details", 0, None, <<>>),
                          Frag("nl", 0, None, <<>>)>>
    /\ pc' = "built"
    /\ UNCHANGED <<hidx, prior_indent, spaces, indent_level, headVars,
                   anchorVars, parseVars, emitVars>>

NextBuild == StartSummary \/ HeadingStep \/ CloseSummary

SpecBuild == InitBuild /\ [][NextBuild]_vars

(***************************************************************************)
(* process_args: the summary map; generate_sidebar: the output file        *)
(*                                                                         *)
(* Names of groups and of summaries are only compared for equality, so     *)
(* they are plain strings here.  The block of a file (the joined           *)
(* summary.subheads, which holds the file's own link) is named by the      *)
(* file's position in sorted(markdown_files).                              *)
(***************************************************************************)
default_group_name == "Ungrouped"

\* SummaryInfo.__init__
SummaryInfo(name, block) ==
    [summary_name |-> name, group_name |-> default_group_name,
     subheads |-> block]

\* what sidebar.write is given: a "## group" line, or a block
Header(group) == [kind |-> "header", group |-> group, block |-> 0]
Block(b) == [kind |-> "block", group |-> "", block |-> b]

\* a variant in which a definition file that does not parse gives an
\* empty map
LoadEmptyOnError(def) ==
    IF def = None THEN None
    ELSE IF ~def[1].isfile THEN None
    ELSE IF ~def[1].valid THEN Some(<<>>)
    ELSE Some(def[1].defs)

\* process_args: summary_map stays None unless -s names a file that parses
LoadSummaryMap(def) ==
    IF def = None THEN None
    ELSE IF ~def[1].isfile THEN None
    ELSE IF ~def[1].valid THEN None
    ELSE Some(def[1].defs)

Contains(seq, v) == \E i \in 1..Len(seq) : seq[i] = v

\* SummaryMap.get_group_for_summary: the first key, in the order of the
\* JSON object, whose list holds the name
get_group_for_summary(defs, summary_name) ==
    LET hits == {i \in 1..Len(defs) : Contains(defs[i].val, summary_name)}
    IN  IF hits = {} THEN None
        ELSE Some(defs[CHOOSE i \in hits : \A j \in hits : i <= j].key)

\* SummaryMap.get_summarys_for_group: defs.get(group_name, None)
get_summarys_for_group(defs, group_name) ==
    LET hits == {i \in 1..Len(defs) : defs[i].key = group_name}
    IN  IF hits = {} THEN None ELSE Some(defs[CHOOSE i \in hits : TRUE].val)

\* first(x for x in summary_list if x.summary_name == item)
first(list, item) ==
    LET hits == {i \in 1..Len(list) : list[i].summary_name = item}
    IN  IF hits = {} THEN None
        ELSE Some(list[CHOOSE i \in hits : \A j \in hits : i <= j])

\* a variant that writes the group's blocks in the order of summary_list
MemberBlocksInListOrder(summarys, list) ==
    LET F[i \in 0..Len(list)] ==
            IF i = 0 THEN <<>>
            ELSE IF Contains(summarys, list[i].summary_name)
                 THEN Append(F[i-1], Block(list[i].subheads))
                 ELSE F[i-1]
    IN  F[Len(list)]

\* for index, item in enumerate(summarys): the blocks written for a group
MemberBlocks(summarys, list) ==
    LET F[i \in 0..Len(summarys)] ==
            IF i = 0 THEN <<>>
            ELSE LET sec == first(list, summarys[i])
                 IN  IF sec # None
                     THEN Append(F[i-1], Block(sec[1].subheads))
                     ELSE F[i-1]
    IN  F[Len(summarys)]

GroupNames == {"G", "H", "Ungrouped"}
Titles == {"A", "B"}

\* a JSON object: its keys are distinct and keep their order
DefsSet ==
    {d \in SeqsUpTo([key : GroupNames, val : SeqsUpTo(Titles, MaxMembers)],
                    MaxGroups) :
        \A i, j \in 1..Len(d) : i # j => d[i].key # d[j].key}

SummaryDefs ==
    {None, Some([isfile |-> FALSE, valid |-> FALSE, defs |-> <<>>]),
     Some([isfile |-> TRUE, valid |-> FALSE, defs |-> <<>>])}
    \cup {Some([isfile |-> TRUE, valid |-> TRUE, defs |-> d]) : d \in DefsSet}

InitEmit ==
    /\ pc = "args"
    /\ summaryDef \in SummaryDefs
    /\ summary_map = None
    /\ \E names \in SeqsUpTo(Titles, MaxDocs) :
           summary_list = [i \in 1..Len(names) |-> SummaryInfo(names[i], i)]
    /\ sidx = 0 /\ gidx = 0 /\ ungrouped_header_done = FALSE
    /\ sidebar = <<>>
    /\ text = <<>> /\ anchor = None
    /\ file = <<>> /\ lineNo = 0
    /\ main_heading = None /\ subheadings = <<>>
    /\ hidx = 0 /\ prior_indent = 0 /\ spaces = 0 /\ indent_level = 0
    /\ subheads = <<>>

emitRest == <<anchorVars, parseVars, headVars, buildVars>>

\* process_args, then generate_sidebar up to "if summary_map is not None"
ProcessArgs ==
    /\ pc = "args"
    /\ summary_map' = LoadSummaryMap(summaryDef)
    /\ pc' = IF summary_map' # None THEN "assign" ELSE "plain"
    /\ UNCHANGED <<summaryDef, summary_list, sidx, gidx,
                   ungrouped_header_done, sidebar, emitRest>>

\* one iteration of "add the group name to the summarys"
AssignGroup ==
    /\ pc = "assign"
    /\ sidx < Len(summary_list)
    /\ sidx' = sidx + 1
    /\ LET s == summary_list[sidx + 1]
           group_name == get_group_for_summary(summary_map[1], s.summary_name)
       IN  summary_list' =
               IF group_name # None
               THEN [summary_list EXCEPT ![sidx + 1].group_name = group_name[1]]
               ELSE summary_list
    /\ UNCHANGED <<pc, summaryDef, summary_map, gidx, ungrouped_header_done,
                   sidebar, emitRest>>

AssignDone ==
    /\ pc = "assign"
    /\ sidx = Len(summary_list)
    /\ pc' = "groups"
    /\ UNCHANGED <<summaryDef, summary_map, summary_list, sidx, gidx,
                   ungrouped_header_done, sidebar, emitRest>>

\* one iteration of "for group in summary_map.defs"
WriteGroup ==
    /\ pc = "groups"
    /\ gidx < Len(summary_map[1])
    /\ gidx' = gidx + 1
    /\ LET group == summary_map[1][gidx + 1].key
           summarys == get_summarys_for_group(summary_map[1], group)
       IN  sidebar' =
               IF summarys = None THEN sidebar
               ELSE sidebar \o <<Header(group)>>
                            \o MemberBlocks(summarys[1], summary_list)
    /\ UNCHANGED <<pc, summaryDef, summary_map, summary_list, sidx,
                   ungrouped_header_done, emitRest>>

GroupsDone ==
    /\ pc = "groups"
    /\ gidx = Len(summary_map[1])
    /\ pc' = "ungrouped"
    /\ sidx' = 0
    /\ ungrouped_header_done' = FALSE
    /\ UNCHANGED <<summaryDef, summary_map, summary_list, gidx, sidebar,
                   emitRest>>

\* one iteration of "add a group for the summarys that didn't get a group
\* name"
WriteUngrouped ==
    /\ pc = "ungrouped"
    /\ sidx < Len(summary_list)
    /\ sidx' = sidx + 1
    /\ LET s == summary_list[sidx + 1]
       IN  IF s.group_name = default_group_name
           THEN /\ sidebar' =
                     (IF ~ungrouped_header_done
                      THEN Append(sidebar, Header(s.group_name))
                      ELSE sidebar) \o <<Block(s.subheads)>>
                /\ ungrouped_header_done' = TRUE
           ELSE UNCHANGED <<sidebar, ungrouped_header_done>>
    /\ UNCHANGED <<pc, summaryDef, summary_map, summary_list, gidx,
                   emitRest>>

\* one iteration of the loop of the branch "no summary map"
WritePlain ==
    /\ pc = "plain"
    /\ sidx < Len(summary_list)
    /\ sidx' = sidx + 1
    /\ sidebar' = Append(sidebar, Block(summary_list[sidx + 1].subheads))
    /\ UNCHANGED <<pc, summaryDef, summary_map, summary_list, gidx,
                   ungrouped_header_done, emitRest>>

\* the output file is closed
Finish ==
    /\ pc \in {"ungrouped", "plain"}
    /\ sidx = Len(summary_list)
    /\ pc' = "done"
    /\ UNCHANGED <<summaryDef, summary_map, summary_list, sidx, gidx,
                   ungrouped_header_done, sidebar, emitRest>>

NextEmit ==
    \/ ProcessArgs
    \/ AssignGroup
    \/ AssignDone
    \/ WriteGroup
    \/ GroupsDone
    \/ WriteUngrouped
    \/ WritePlain
    \/ Finish

SpecEmit == InitEmit /\ [][NextEmit]_vars

(***************************************************************************)
(* Properties of the block of one file (SpecBuild)                         *)
(***************************************************************************)
Kinds(frags) == [i \in 1..Len(frags) |-> frags[i].kind]
CountKind(frags, n, kind) ==
    Cardinality({i \in 1..n : frags[i].kind = kind})
Depths == [i \in 1..Len(subheadings) |-> subheadings[i][1]]
Repeat(k, v) == [i \in 1..k |-> v]

\* C1: the finished block of a file with at least one sub-heading holds as
\* many <ul> lines as </ul> lines
C1_Balanced ==
    (pc = "built" /\ subheadings # <<>>) =>
        CountKind(subheads, Len(subheads), "ul")
            = CountKind(subheads, Len(subheads), "/ul")

\* C2: in every prefix of the fragments of a block the </ul> lines never
\* outnumber the <ul> lines, and every <li> line is appended while a list
\* is open
C2_NoCloseBeforeOpen ==
    \A n \in 1..Len(subheads) :
        /\ CountKind(subheads, n, "/ul") <= CountKind(subheads, n, "ul")
        /\ subheads[n].kind = "li" =>
               CountKind(subheads, n, "/ul") < CountKind(subheads, n, "ul")

\* what one iteration of the loop over the sub-headings appends
StepKinds == Kinds(SubSeq(subheads', Len(subheads) + 1, Len(subheads')))

\* C3: a sub-heading deeper than the cursor appends one <ul> and its item,
\* a shallower one appends (cursor - depth) </ul> lines and its item, an
\* equal one appends its item alone, and the cursor becomes the depth; for
\* the depths 2,4,2 one <ul> lies between items 1 and 2 and two </ul>
\* between items 2 and 3
C3_StepMarkers ==
    /\ [][(pc = "loop" /\ hidx' = hidx + 1) =>
            LET depth == subheadings[hidx'][1]
            IN  /\ SubSeq(subheads', 1, Len(subheads)) = subheads
                /\ prior_indent' = depth
                /\ depth > prior_indent => StepKinds = <<"ul", "li">>
                /\ depth < prior_indent =>
                       StepKinds = Repeat(prior_indent - depth, "/ul")
                                       \o <<"li">>
                /\ depth = prior_indent => StepKinds = <<"li">>]_vars
    /\ []((pc = "built" /\ Depths = <<2, 4, 2>>) =>
            SubSeq(Kinds(subheads), 3, 8)
                = <<"li", "ul", "li", "/ul", "/ul", "li">>)

C3_Witness ==
    /\ pc = "built"
    /\ Depths = <<2, 4, 2>>
    /\ SubSeq(Kinds(subheads), 3, 8) = <<"li", "ul", "li", "/ul", "/ul", "li">>

(***************************************************************************)
(* Properties of extract_headings (SpecParse)                              *)
(***************************************************************************)
\* the lines of the file that start with exactly one '#'
H1Lines == {i \in 1..Len(file) : HashCount(strip(file[i])) = 1}
H1Text(i) == SliceFrom(strip(file[i]), 2)
FirstH1 == CHOOSE i \in H1Lines : \A j \in H1Lines : i <= j
LastH1 == CHOOSE i \in H1Lines : \A j \in H1Lines : j <= i

\* a depth-1 line written as "# text": one marker, a blank, a text
WellFormedH1(i) == strip(file[i])[2] = " " /\ H1Text(i) # <<>>

\* C4 as stated: with more than one depth-1 line, each of them well
\* formed, the returned title is the text of the first of them
C4_FirstWins ==
    (pc = "returned" /\ Cardinality(H1Lines) > 1
        /\ \A i \in H1Lines : Len(strip(file[i])) > 2 /\ WellFormedH1(i)) =>
        main_heading = Some(H1Text(FirstH1))

\* C4 as amended: with more than one depth-1 line the returned title is the
\* text of the last of them, or the file's base name when that text is
\* empty
C4_LastWins ==
    (pc = "returned" /\ Cardinality(H1Lines) > 1) =>
        main_heading = Some(IF H1Text(LastH1) = <<>> THEN FileBaseName
                            ELSE H1Text(LastH1))

C4_Witness ==
    /\ pc = "returned"
    /\ file = <<<<"#", " ", "x", "\n">>, <<"#", " ", "x", "y", "\n">>>>
    /\ main_heading = Some(<<"x", "y">>)

\* a line whose '#' markers are followed by a character that is no blank
Malformed(line) ==
    /\ HashCount(line) >= 1
    /\ Len(line) > HashCount(line)
    /\ line[HashCount(line) + 1] # " "

\* the title a value of main_heading stands for
TitleOf(h) == IF NotHeading(h) THEN FileBaseName ELSE h[1]

\* C5: reading a line whose markers are not followed by a blank changes
\* neither the title nor the sub-headings
C5_MalformedSkipped ==
    [][(pc = "read" /\ lineNo' = lineNo + 1
            /\ Malformed(strip(file[lineNo']))) =>
        (TitleOf(main_heading') = TitleOf(main_heading)
            /\ subheadings' = subheadings)]_vars

(***************************************************************************)
(* Properties of create_anchor (SpecAnchor)                                *)
(***************************************************************************)
\* lowercase, remove, trim, one hyphen for each run of whitespace
ReferenceAnchor(t) == ReplaceWhitespaceRuns(strip(ReSubInvalid(lower(t))))

\* C9 as stated: create_anchor returns what the reference pipeline returns
C9_ReferencePipeline ==
    pc = "anchored" => anchor = Some(ReferenceAnchor(text))

\* C9 as amended: create_anchor removes the invalid characters, trims and
\* lowercases, then turns every blank (U+0020) into one hyphen and keeps
\* every other character, so a run of n blanks gives n hyphens and a tab
\* stays a tab
C9_EachSpace ==
    pc = "anchored" =>
        LET kept == strip(SelectSeq(text,
                        LAMBDA c : c \in WordChars \cup Whitespace \cup {"-"}))
        IN  /\ Len(anchor[1]) = Len(kept)
            /\ \A i \in 1..Len(kept) :
                   anchor[1][i] = IF kept[i] = " " THEN "-"
                                  ELSE lowerChar(kept[i])

C9_Witness ==
    /\ pc = "anchored"
    /\ text = <<"A", " ", " ", "a">>
    /\ anchor = Some(<<"a", "-", "-", "a">>)

(***************************************************************************)
(* Properties of the output file (SpecEmit)                                *)
(***************************************************************************)
NameOfBlock(b) ==
    LET i == CHOOSE i \in 1..Len(summary_list) : summary_list[i].subheads = b
    IN  summary_list[i].summary_name
Names == {summary_list[i].summary_name : i \in 1..Len(summary_list)}

\* the output with each block replaced by the title of its file
ByTitle(out) ==
    [k \in 1..Len(out) |->
        IF out[k].kind = "header" THEN <<"header", out[k].group>>
        ELSE <<"block", NameOfBlock(out[k].block)>>]

\* the groups in declared order, each its header and then one block for
\* each listed name that is the title of a file, in listed order
RECURSIVE DeclaredSections(_)
DeclaredSections(defs) ==
    IF defs = <<>> THEN <<>>
    ELSE LET present == SelectSeq(Head(defs).val, LAMBDA m : m \in Names)
         IN  <<<<"header", Head(defs).key>>>>
                 \o [i \in 1..Len(present) |-> <<"block", present[i]>>]
                 \o DeclaredSections(Tail(defs))

\* C6: with a summary map the output starts with the declared groups in
\* declared order, each its header followed by the blocks of its listed
\* names in listed order, names of no file left out
C6_DeclaredOrder ==
    (pc \in {"ungrouped", "done"} /\ summary_map # None) =>
        LET want == DeclaredSections(summary_map[1])
        IN  /\ Len(sidebar) >= Len(want)
            /\ SubSeq(ByTitle(sidebar), 1, Len(want)) = want

C6_Witness ==
    /\ pc = "done"
    /\ summary_map = Some(<<[key |-> "H", val |-> <<"B", "A">>],
                            [key |-> "G", val |-> <<"B">>]>>)
    /\ Len(summary_list) = 1
    /\ summary_list[1].summary_name = "A"
    /\ sidebar = <<Header("H"), Block(1), Header("G")>>

\* the files whose title no group lists, in input order
Unmatched ==
    SelectSeq([i \in 1..Len(summary_list) |-> i],
              LAMBDA i : \A g \in 1..Len(summary_map[1]) :
                  ~Contains(summary_map[1][g].val,
                            summary_list[i].summary_name))
HeaderAt == {k \in 1..Len(sidebar) : sidebar[k].kind = "header"}
LastHeader == CHOOSE k \in HeaderAt : \A j \in HeaderAt : j <= k

\* C7: with a summary map the output holds one header for each declared
\* group and, only when some file is unmatched, one more, "Ungrouped",
\* after them, followed by the blocks of the unmatched files in input order
C7_SingleUngrouped ==
    (pc = "done" /\ summary_map # None) =>
        /\ Cardinality(HeaderAt) =
               Len(summary_map[1]) + (IF Unmatched # <<>> THEN 1 ELSE 0)
        /\ Unmatched # <<>> =>
               /\ sidebar[LastHeader] = Header(default_group_name)
               /\ SubSeq(sidebar, LastHeader + 1, Len(sidebar))
                      = [i \in 1..Len(Unmatched) |->
                            Block(summary_list[Unmatched[i]].subheads)]

\* C8: without a summary map (no -s, a missing file or one that does not
\* parse) the output is the block of every file once, in input order, and
\* nothing else
C8_PlainOrder ==
    (pc = "done" /\ (summaryDef = None \/ ~summaryDef[1].isfile
                        \/ ~summaryDef[1].valid)) =>
        sidebar = [i \in 1..Len(summary_list) |->
                      Block(summary_list[i].subheads)]

C8_Witness ==
    /\ pc = "done"
    /\ summaryDef = Some([isfile |-> TRUE, valid |-> FALSE, defs |-> <<>>])
    /\ Len(summary_list) = 2
    /\ sidebar = <<Block(1), Block(2)>>

\* C10: with a summary map the block of every file is written exactly once
C10_EachBlockOnce ==
    (pc = "done" /\ summary_map # None) =>
        \A i \in 1..Len(summary_list) :
            Cardinality({k \in 1..Len(sidebar) :
                sidebar[k] = Block(summary_list[i].subheads)}) = 1

====
